---------------------------- MODULE Spec2Model ----------------------------
(***************************************************************************)
(* A model of src/stock_prediction.py: the SARIMA grid search              *)
(* (optimize_SARIMA and the refit of the best order), the enumeration of   *)
(* the parameter space (itertools.product), and the forecast / error       *)
(* step (predict, mean_absolute_percentage_error).                         *)
(*                                                                         *)
(* Finite floating point values (AIC scores, prices) are modelled by       *)
(* integers and exact rationals; inf, -inf and nan are separate values.    *)
(* Three specifications share the module: Spec (the search), SpecEnum      *)
(* (the enumeration) and SpecEval (forecast and error).                    *)
(***************************************************************************)
EXTENDS Integers, Sequences, FiniteSets

VARIABLES
    \* ---- the search: optimize_SARIMA and the cell after it
    parameters_list,   \* the candidate (p, q, P, Q) tuples, in order
    fit,               \* what SARIMAX(...).fit does for each order on data.CLOSE
    pc,                \* position of the search
    i,                 \* index of the for loop over parameters_list (1-based)
    attempted,         \* the orders a fit was attempted for, in order
    results,           \* the local list results
    best_aic,          \* the local best_aic
    loop_best_model,   \* the local best_model of optimize_SARIMA
    best_param,        \* the local best_param
    result_table,      \* the returned, sorted table
    raised,            \* the exception that ended the search, or "none"
    best_model,        \* the global best_model, refit from result_table.parameters[0]
    \* ---- the enumeration: product(ps, qs, Ps, Qs), lines 203-214
    ps, qs, Ps, Qs,    \* the four ranges
    parameters,        \* the product iterator: its odometer, <<>> once exhausted
    \* ---- forecast and error, lines 266-299
    CLOSE,             \* data.CLOSE, the observed prices
    fittedvalues,      \* best_model.fittedvalues, aligned with CLOSE
    s, d,              \* season length and differencing order
    n_steps,           \* the number of steps asked of predict
    forecast,          \* the index labels of the values predict returned
    error              \* what mean_absolute_percentage_error returned

searchVars == <<parameters_list, fit, pc, i, attempted, results, best_aic,
                loop_best_model, best_param, result_table, raised, best_model>>

enumVars == <<ps, qs, Ps, Qs, parameters>>

evalVars == <<CLOSE, fittedvalues, s, d, n_steps, forecast, error>>

vars == <<searchVars, enumVars, evalVars>>

-----------------------------------------------------------------------------
(* Bounds of the model *)

\* longest candidate sequence handed to optimize_SARIMA
MaxCand == 4

\* finite AIC scores are drawn from 1..MaxAIC
MaxAIC == 2

\* the ranges enumerated are range(0, n) for n up to MaxStop
MaxStop == 2

\* longest price series
MaxLen == 3

\* prices are drawn from 0..MaxPrice
MaxPrice == 2

\* predict is asked for 1..MaxSteps steps
MaxSteps == 2

-----------------------------------------------------------------------------
(* The search: optimize_SARIMA, lines 217-252, and the refit, lines 257-260 *)

\* the k-th tuple of product(range(0, 2), range(0, 2), range(0, 2), range(0, 2))
CandidateOrder(k) ==
    <<((k - 1) \div 8) % 2, ((k - 1) \div 4) % 2, ((k - 1) \div 2) % 2, (k - 1) % 2>>

CandidateLists == {[k \in 1..n |-> CandidateOrder(k)] : n \in 0..MaxCand}

SeqRange(sq) == {sq[k] : k \in 1..Len(sq)}

\* the floats an AIC takes: a finite number, float('inf'), -inf or nan
Float(v) == [kind |-> "finite", val |-> v]
PosInf == [kind |-> "inf", val |-> 0]
NegInf == [kind |-> "neginf", val |-> 0]
NotANumber == [kind |-> "nan", val |-> 0]

AICs == {Float(a) : a \in 1..MaxAIC} \cup {PosInf, NegInf, NotANumber}

\* the float comparisons x < y and x == y: every comparison with nan is False
FloatRank(x) == IF x.kind = "neginf" THEN 0 ELSE IF x.kind = "finite" THEN 1 ELSE 2
FloatLess(x, y) ==
    /\ x.kind # "nan" /\ y.kind # "nan"
    /\ \/ FloatRank(x) < FloatRank(y)
       \/ (x.kind = "finite" /\ y.kind = "finite" /\ x.val < y.val)
FloatEq(x, y) == x.kind # "nan" /\ y.kind # "nan" /\ x = y
FloatLE(x, y) == FloatLess(x, y) \/ FloatEq(x, y)

\* a fit either raises or gives a fitted model; nothing in lines 231-243
\* restricts the float model.aic is
FitRaises == [raises |-> TRUE, aic |-> Float(0)]
FitOutcomes == {FitRaises} \cup {[raises |-> FALSE, aic |-> a] : a \in AICs}

\* a name that holds no value yet
NoValue == [kind |-> "none", num |-> 0, den |-> 1]

\* an unbound local name, and a fitted model object
Unbound == [bound |-> FALSE, order |-> <<>>, aic |-> Float(0)]
FittedModel(order, aic) == [bound |-> TRUE, order |-> order, aic |-> aic]

\* sm.tsa.statespace.SARIMAX(data.CLOSE, order, seasonal_order).fit(disp=-1)
SARIMAX_fit(order) == fit[order]

\* aic < best_aic, line 239
IsBetter(aic, best) == FloatLess(aic, best)

\* variant of AfterFailure that leaves the loop (C3 does not survive it)
AfterFailureBreak(k, n) == n + 1
\* except: continue, lines 233-234: the loop goes on with the next candidate
AfterFailure(k, n) == k + 1

\* pd.DataFrame(results): no columns for an empty list, two for [param, aic] rows
DataFrameColumns(rows) == IF rows = <<>> THEN 0 ELSE 2

\* result_table.columns = ['parameters', 'aic'], line 246: pandas raises
\* ValueError (length mismatch) unless the frame has two columns
SetColumnsRaises(rows) == DataFrameColumns(rows) # 2

Permutations(n) ==
    {f \in [1..n -> 1..n] : \A a, b \in 1..n : a # b => f[a] # f[b]}

\* sort_values(by='aic', ascending=True).reset_index(drop=True), line 248.
\* pandas sorts the rows whose aic is not nan and puts the nan rows after
\* them, in the order they had (na_position='last').  The default kind is
\* 'quicksort', which numpy does not make stable: rows of equal aic may come
\* out in any order.
sort_values(rows) ==
    LET n == Len(rows)
        numbers == {k \in 1..n : rows[k].aic.kind # "nan"}
        m == Cardinality(numbers)
    IN {[k \in 1..n |-> rows[f[k]]] :
          f \in {g \in Permutations(n) :
                   /\ \A k \in 1..m : g[k] \in numbers
                   /\ \A k \in 1..(m - 1) : FloatLE(rows[g[k]].aic, rows[g[k + 1]].aic)
                   /\ \A k \in (m + 1)..(n - 1) : g[k] < g[k + 1]}}

\* the other cells of the script are not running
EnumIdle ==
    /\ ps = <<>> /\ qs = <<>> /\ Ps = <<>> /\ Qs = <<>>
    /\ parameters = <<>>

EvalIdle ==
    /\ CLOSE = <<>> /\ fittedvalues = <<>>
    /\ s = 0 /\ d = 0
    /\ n_steps = 0
    /\ forecast = <<>>
    /\ error = NoValue

InitSearch ==
    /\ EnumIdle /\ EvalIdle
    /\ parameters_list \in CandidateLists
    /\ fit \in [SeqRange(parameters_list) -> FitOutcomes]
    /\ pc = "loop"
    /\ i = 1
    /\ attempted = <<>>
    /\ results = <<>>
    /\ best_aic = PosInf
    /\ loop_best_model = Unbound
    /\ best_param = <<>>
    /\ result_table = <<>>
    /\ raised = "none"
    /\ best_model = Unbound

\* one iteration whose fit raises: except: continue
FitFails ==
    /\ pc = "loop"
    /\ i <= Len(parameters_list)
    /\ SARIMAX_fit(parameters_list[i]).raises
    /\ attempted' = Append(attempted, parameters_list[i])
    /\ i' = AfterFailure(i, Len(parameters_list))
    /\ UNCHANGED <<parameters_list, fit, pc, results, best_aic, loop_best_model,
                   best_param, result_table, raised, best_model>>
    /\ UNCHANGED <<enumVars, evalVars>>

\* one iteration whose fit succeeds, lines 236-243
FitSucceeds ==
    /\ pc = "loop"
    /\ i <= Len(parameters_list)
    /\ ~SARIMAX_fit(parameters_list[i]).raises
    /\ LET param == parameters_list[i]
           aic == SARIMAX_fit(param).aic
       IN /\ attempted' = Append(attempted, param)
          /\ IF IsBetter(aic, best_aic)
             THEN /\ loop_best_model' = FittedModel(param, aic)
                  /\ best_aic' = aic
                  /\ best_param' = param
             ELSE UNCHANGED <<loop_best_model, best_aic, best_param>>
          /\ results' = Append(results, [parameters |-> param, aic |-> aic])
    /\ i' = i + 1
    /\ UNCHANGED <<parameters_list, fit, pc, result_table, raised, best_model>>
    /\ UNCHANGED <<enumVars, evalVars>>

\* after the loop, lines 245-250: build the frame, name its columns, sort, return
BuildTable ==
    /\ pc = "loop"
    /\ i > Len(parameters_list)
    /\ IF SetColumnsRaises(results)
       THEN /\ raised' = "ValueError"
            /\ pc' = "raised"
            /\ UNCHANGED result_table
       ELSE /\ result_table' \in sort_values(results)
            /\ pc' = "returned"
            /\ UNCHANGED raised
    /\ UNCHANGED <<parameters_list, fit, i, attempted, results, best_aic,
                   loop_best_model, best_param, best_model>>
    /\ UNCHANGED <<enumVars, evalVars>>

\* lines 257-260: p, q, P, Q = result_table.parameters[0]; fit that order again
Refit ==
    /\ pc = "returned"
    /\ LET order == result_table[1].parameters
       IN best_model' = FittedModel(order, SARIMAX_fit(order).aic)
    /\ pc' = "done"
    /\ UNCHANGED <<parameters_list, fit, i, attempted, results, best_aic,
                   loop_best_model, best_param, result_table, raised>>
    /\ UNCHANGED <<enumVars, evalVars>>

NextSearch == FitFails \/ FitSucceeds \/ BuildTable \/ Refit

Spec == InitSearch /\ [][NextSearch]_vars

-----------------------------------------------------------------------------
(* Properties of the search *)

SearchEnded == pc \in {"raised", "returned", "done"}
TableReturned == pc \in {"returned", "done"}

EveryFitFails == \A k \in 1..Len(parameters_list) : fit[parameters_list[k]].raises

RowsOf(table, order) == {k \in 1..Len(table) : table[k].parameters = order}

TableAICs == {result_table[k].aic : k \in 1..Len(result_table)}

\* min(aic) over the rows of the table, as pandas takes it: nan is skipped,
\* and a table of nan alone has no least AIC
TableNumbers == {x \in TableAICs : x.kind # "nan"}
LeastTableAICs == {m \in TableNumbers : \A x \in TableNumbers : FloatLE(m, x)}

\* the positions in parameters_list of the candidates whose fit succeeded
Fitted == {k \in 1..Len(parameters_list) : ~fit[parameters_list[k]].raises}

AllFinite == \A k \in Fitted : fit[parameters_list[k]].aic.kind = "finite"

\* position k is the first candidate attaining the least AIC
IsFirstBest(k) ==
    /\ k \in Fitted
    /\ \A j \in Fitted :
          /\ FloatLE(fit[parameters_list[k]].aic, fit[parameters_list[j]].aic)
          /\ (j < k => FloatLess(fit[parameters_list[k]].aic, fit[parameters_list[j]].aic))

\* C1: if every candidate fails to fit (an empty candidate sequence included),
\* the search ends in a NoViableModelError and yields no table.
C1_NoViableModelError ==
    (SearchEnded /\ EveryFitFails) =>
        (raised = "NoViableModelError" /\ result_table = <<>> /\ pc = "raised")

\* C2: whenever the table is returned (it is then non-empty), the AIC of the
\* best model tracked in the loop and the AIC of the model refit from
\* result_table.parameters[0] both equal the least AIC of the table.
C2_BestIsMinimum ==
    /\ TableReturned =>
          /\ result_table # <<>>
          /\ loop_best_model.bound
          /\ best_aic \in LeastTableAICs
          /\ loop_best_model.aic \in LeastTableAICs
    /\ pc = "done" =>
          /\ best_model.bound
          /\ best_model.aic \in LeastTableAICs

\* what holds of C2 when every AIC is a finite number
FiniteAICs_BestIsMinimum == AllFinite => C2_BestIsMinimum

\* C3: a failed fit does not end the search: every candidate is attempted, in
\* order, and the table holds exactly one row (order, AIC) for each candidate
\* whose fit succeeded and no row for one whose fit failed.
C3_FailuresSkipped ==
    /\ attempted = SubSeq(parameters_list, 1, Len(attempted))
    /\ SearchEnded => attempted = parameters_list
    /\ TableReturned =>
          /\ \A k \in 1..Len(parameters_list) :
                LET order == parameters_list[k]
                IN IF fit[order].raises
                   THEN RowsOf(result_table, order) = {}
                   ELSE /\ Cardinality(RowsOf(result_table, order)) = 1
                        /\ \A r \in RowsOf(result_table, order) :
                              result_table[r].aic = fit[order].aic
          /\ \A r \in 1..Len(result_table) :
                result_table[r].parameters \in SeqRange(parameters_list)

\* a table returned after a failure in the middle of the candidates
C3_Witness ==
    /\ pc = "returned"
    /\ Len(parameters_list) >= 3
    /\ ~fit[parameters_list[1]].raises
    /\ fit[parameters_list[2]].raises
    /\ ~fit[parameters_list[3]].raises
    /\ Len(result_table) >= 2

\* C4: the returned table is sorted ascending by AIC: aic[k] <= aic[k + 1]
\* for every pair of adjacent rows.
C4_SortedAscending ==
    TableReturned =>
        \A k \in 1..(Len(result_table) - 1) :
            FloatLE(result_table[k].aic, result_table[k + 1].aic)

\* what holds of C4 when every AIC is a finite number
FiniteAICs_SortedAscending == AllFinite => C4_SortedAscending

\* C10: when candidates have equal AIC, rows of equal AIC keep their
\* enumeration order, so the first row is the first candidate attaining the
\* least AIC, the one the loop retained.
C10_StableTies ==
    (/\ TableReturned
     /\ \E a, b \in 1..Len(result_table) :
           a # b /\ FloatEq(result_table[a].aic, result_table[b].aic)) =>
        /\ \A a, b \in 1..Len(result_table) :
              (a < b /\ FloatEq(result_table[a].aic, result_table[b].aic)) =>
                 \E x, y \in 1..Len(parameters_list) :
                    /\ x < y
                    /\ parameters_list[x] = result_table[a].parameters
                    /\ parameters_list[y] = result_table[b].parameters
        /\ \E k \in 1..Len(parameters_list) :
              IsFirstBest(k) /\ result_table[1].parameters = parameters_list[k]
        /\ result_table[1].parameters = best_param
        /\ pc = "done" => best_model.order = loop_best_model.order

-----------------------------------------------------------------------------
(* The enumeration: lines 203-214                                          *)
(*   ps = range(0, 5) ... parameters = product(ps, qs, Ps, Qs)             *)
(*   parameters_list = list(parameters)                                    *)
(* product is an iterator: list() draws one tuple at a time.  Its state is *)
(* an odometer of positions into the four ranges, the rightmost advancing  *)
(* on every draw.                                                          *)

\* range(start, stop)
range(start, stop) == [k \in 1..(stop - start) |-> start + k - 1]

\* the stop of range(0, 5), lines 203-208
RangeStop == 5

\* the ranges tried: every range(0, n) up to MaxStop, and the script's own
RangeStops == [1..4 -> 0..MaxStop] \cup {[k \in 1..4 |-> RangeStop]}

Pools == <<ps, qs, Ps, Qs>>

\* the odometer before the first draw: exhausted at once if a range is empty
FirstPosition(pools) ==
    IF \E k \in 1..4 : Len(pools[k]) = 0 THEN <<>> ELSE <<1, 1, 1, 1>>

\* the tuple the odometer points at
TupleAt(pools, pos) == [k \in 1..4 |-> pools[k][pos[k]]]

\* variant of Advance that forgets to start the positions right of the
\* advancing one over (C6 does not survive it)
AdvanceNoReset(pools, pos) ==
    LET movable == {k \in 1..4 : pos[k] < Len(pools[k])}
    IN IF movable = {} THEN <<>>
       ELSE LET m == CHOOSE k \in movable : \A j \in movable : j <= k
            IN [k \in 1..4 |-> IF k = m THEN pos[k] + 1 ELSE pos[k]]
\* the odometer after a draw: the rightmost position that can still advance
\* does, and every position right of it starts over; <<>> when none can
Advance(pools, pos) ==
    LET movable == {k \in 1..4 : pos[k] < Len(pools[k])}
    IN IF movable = {} THEN <<>>
       ELSE LET m == CHOOSE k \in movable : \A j \in movable : j <= k
            IN [k \in 1..4 |-> IF k < m THEN pos[k]
                               ELSE IF k = m THEN pos[k] + 1 ELSE 1]

SearchIdle ==
    /\ fit = <<>>
    /\ i = 0
    /\ attempted = <<>>
    /\ results = <<>>
    /\ best_aic = PosInf
    /\ loop_best_model = Unbound
    /\ best_param = <<>>
    /\ result_table = <<>>
    /\ raised = "none"
    /\ best_model = Unbound

InitEnum ==
    /\ SearchIdle /\ EvalIdle
    /\ \E stops \in RangeStops :
          /\ ps = range(0, stops[1])
          /\ qs = range(0, stops[2])
          /\ Ps = range(0, stops[3])
          /\ Qs = range(0, stops[4])
    /\ parameters = FirstPosition(Pools)
    /\ parameters_list = <<>>
    /\ pc = "listing"

\* list() draws the next tuple of the product
ProductNext ==
    /\ pc = "listing"
    /\ parameters # <<>>
    /\ parameters_list' = Append(parameters_list, TupleAt(Pools, parameters))
    /\ parameters' = Advance(Pools, parameters)
    /\ UNCHANGED <<ps, qs, Ps, Qs, pc>>
    /\ UNCHANGED <<fit, i, attempted, results, best_aic, loop_best_model,
                   best_param, result_table, raised, best_model>>
    /\ UNCHANGED evalVars

\* the iterator is exhausted: parameters_list is complete
ProductStop ==
    /\ pc = "listing"
    /\ parameters = <<>>
    /\ pc' = "listed"
    /\ UNCHANGED <<parameters_list, enumVars>>
    /\ UNCHANGED <<fit, i, attempted, results, best_aic, loop_best_model,
                   best_param, result_table, raised, best_model>>
    /\ UNCHANGED evalVars

NextEnum == ProductNext \/ ProductStop

SpecEnum == InitEnum /\ [][NextEnum]_vars

\* C6: for non-empty ranges the list holds |ps| * |qs| * |Ps| * |Qs| tuples,
\* all distinct, and every combination of one value from each range exactly
\* once (625 tuples for the ranges of the script).
C6_FullProduct ==
    (pc = "listed" /\ ps # <<>> /\ qs # <<>> /\ Ps # <<>> /\ Qs # <<>>) =>
        /\ Len(parameters_list) = Len(ps) * Len(qs) * Len(Ps) * Len(Qs)
        /\ \A a, b \in 1..Len(parameters_list) :
              a # b => parameters_list[a] # parameters_list[b]
        /\ \A a \in SeqRange(ps), b \in SeqRange(qs), c \in SeqRange(Ps), e \in SeqRange(Qs) :
              Cardinality({k \in 1..Len(parameters_list) :
                              parameters_list[k] = <<a, b, c, e>>}) = 1
        /\ (Len(ps) = RangeStop /\ Len(qs) = RangeStop /\ Len(Ps) = RangeStop
              /\ Len(Qs) = RangeStop) => Len(parameters_list) = 625

\* the list of the script's own ranges, complete
C6_Witness ==
    /\ pc = "listed"
    /\ ps = range(0, RangeStop) /\ qs = range(0, RangeStop)
    /\ Ps = range(0, RangeStop) /\ Qs = range(0, RangeStop)
    /\ Len(parameters_list) = 625
    /\ parameters_list[1] = <<0, 0, 0, 0>>
    /\ parameters_list[2] = <<0, 0, 0, 1>>
    /\ parameters_list[625] = <<4, 4, 4, 4>>

-----------------------------------------------------------------------------
(* Forecast and error: lines 266-267 and 298-299 (plot_SARIMA, lines       *)
(* 269-295, does the same two steps).  A float is an exact rational, inf   *)
(* or nan; rounding is not modelled.                                       *)

RECURSIVE GCD(_, _)
GCD(a, b) == IF b = 0 THEN a ELSE GCD(b, a % b)

Abs(x) == IF x < 0 THEN 0 - x ELSE x

\* the float num / den (num >= 0, den > 0), in lowest terms
Rat(num, den) ==
    LET g == GCD(num, den)
    IN [kind |-> "finite", num |-> num \div g, den |-> den \div g]
Inf == [kind |-> "inf", num |-> 0, den |-> 1]
NaN == [kind |-> "nan", num |-> 0, den |-> 1]

RatAdd(x, y) == Rat(x.num * y.den + y.num * x.den, x.den * y.den)

\* the season lengths and differencing orders tried (the script sets s = 5, d = 1)
SeasonLengths == {1, 2}
DiffOrders == {0, 1}

\* a fitted value is off the actual one by one of these
Residuals == {-1, 0, 1}

\* variant of SliceFrom that starts one element early (C7 does not survive it)
SliceFromOneEarly(series, start) == SubSeq(series, start, Len(series))
\* series[start:]: the elements at 0-based indices start, start + 1, ...
SliceFrom(series, start) == SubSeq(series, start + 1, Len(series))

\* np.abs((y_true - y_pred) / y_true) for one element: dividing by zero gives
\* inf (nan for 0 / 0) in numpy and pandas, it does not raise
AbsRelDev(y, yhat) ==
    IF y # 0 THEN Rat(Abs(y - yhat), Abs(y))
    ELSE IF y - yhat # 0 THEN Inf ELSE NaN

RECURSIVE SumFinite(_, _)
\* the sum of the first k terms that are not nan (all of them finite)
SumFinite(terms, k) ==
    IF k = 0 THEN Rat(0, 1)
    ELSE IF terms[k].kind = "nan" THEN SumFinite(terms, k - 1)
    ELSE RatAdd(SumFinite(terms, k - 1), terms[k])

\* np.mean(np.abs((y_true - y_pred) / y_true)) * 100, line 267.  The operands
\* are pandas Series, so np.mean is Series.mean, which skips nan.
mean_absolute_percentage_error(y_true, y_pred) ==
    LET terms == [k \in 1..Len(y_true) |-> AbsRelDev(y_true[k], y_pred[k])]
        valid == {k \in 1..Len(y_true) : terms[k].kind # "nan"}
    IN IF valid = {} THEN NaN
       ELSE IF \E k \in valid : terms[k].kind = "inf" THEN Inf
       ELSE LET total == SumFinite(terms, Len(y_true))
            IN Rat(total.num * 100, total.den * Cardinality(valid))

\* model.predict(start, end): one value for every index from start to end,
\* both included
predict(start, end) == [k \in 1..(end - start + 1) |-> start + k - 1]

\* mean_absolute_percentage_error(data.CLOSE[s+d:], best_model.fittedvalues[s+d:])
WindowError(actual, fitted, season, diff) ==
    mean_absolute_percentage_error(SliceFrom(actual, season + diff),
                                   SliceFrom(fitted, season + diff))

InitEval ==
    /\ SearchIdle /\ EnumIdle
    /\ parameters_list = <<>>
    /\ \E n \in 1..MaxLen :
          /\ CLOSE \in [1..n -> 0..MaxPrice]
          /\ \E r \in [1..n -> Residuals] :
                fittedvalues = [k \in 1..n |-> CLOSE[k] + r[k]]
    /\ s \in SeasonLengths
    /\ d \in DiffOrders
    /\ n_steps = 0
    /\ forecast = <<>>
    /\ error = NoValue
    /\ pc = "forecast"

\* best_model.predict(start=data.CLOSE.shape[0], end=data.CLOSE.shape[0] + n_steps)
Predict ==
    /\ pc = "forecast"
    /\ \E steps \in 1..MaxSteps :
          /\ n_steps' = steps
          /\ forecast' = predict(Len(CLOSE), Len(CLOSE) + steps)
    /\ pc' = "evaluate"
    /\ UNCHANGED <<CLOSE, fittedvalues, s, d, error>>
    /\ UNCHANGED <<parameters_list, fit, i, attempted, results, best_aic,
                   loop_best_model, best_param, result_table, raised, best_model>>
    /\ UNCHANGED enumVars

\* the percentage error over the observations after the warm-up, line 299
ComputeError ==
    /\ pc = "evaluate"
    /\ error' = WindowError(CLOSE, fittedvalues, s, d)
    /\ pc' = "evaluated"
    /\ UNCHANGED <<CLOSE, fittedvalues, s, d, n_steps, forecast>>
    /\ UNCHANGED <<parameters_list, fit, i, attempted, results, best_aic,
                   loop_best_model, best_param, result_table, raised, best_model>>
    /\ UNCHANGED enumVars

NextEval == Predict \/ ComputeError

SpecEval == InitEval /\ [][NextEval]_vars

\* the 1-based positions of the warm-up (0-based indices < s + d), and of the window
WarmUp == {k \in 1..Len(CLOSE) : k - 1 < s + d}
Window == {k \in 1..Len(CLOSE) : k - 1 >= s + d}

\* C5: for a horizon of N steps the forecast holds exactly N values, the first
\* at index n (right after the last observation), the last at index n + N - 1.
C5_ExactlyNSteps ==
    pc \in {"evaluate", "evaluated"} =>
        /\ Len(forecast) = n_steps
        /\ forecast[1] = Len(CLOSE)
        /\ forecast[Len(forecast)] = Len(CLOSE) + n_steps - 1

\* C7: no index below s + d contributes to the error: whatever the actual or
\* the fitted value at such an index is changed to, the error is the same.
C7_WarmUpExcluded ==
    pc = "evaluated" =>
        \A k \in WarmUp, v \in 0..MaxPrice :
            /\ WindowError([CLOSE EXCEPT ![k] = v], fittedvalues, s, d) = error
            /\ WindowError(CLOSE, [fittedvalues EXCEPT ![k] = v], s, d) = error

\* an error over a window of two or more observations, after a warm-up in
\* which the fitted values are off
C7_Witness ==
    /\ pc = "evaluated"
    /\ Cardinality(Window) >= 2
    /\ \E k \in WarmUp : CLOSE[k] # fittedvalues[k] /\ CLOSE[k] # 0
    /\ error.kind = "finite"
    /\ error.num > 0

\* C8: if an actual value inside the window is 0, the computation ends in a
\* DivisionByZeroError and returns no error value.
C8_DivisionByZeroError ==
    (pc = "evaluated" /\ \E k \in Window : CLOSE[k] = 0) =>
        (raised = "DivisionByZeroError" /\ error = NoValue)

=============================================================================
